---- MODULE Spec2Model ----
(***************************************************************************)
(* Model of the HTTP gateway request pipeline of octelium's vigil httpg    *)
(* mode (src/unnamed/part_000): getProxy, the direct-response handler, the *)
(* ReverseProxy Director, the WebSocket header repair and the ErrorHandler.*)
(*                                                                         *)
(* One behaviour is one HTTP exchange.  The request context, the inbound   *)
(* request and the answers of the collaborators (lbManager, transport,     *)
(* secretMan, the SigV4 signer) are fixed in the initial state and range   *)
(* over bounded sets; the actions are the code's handlers and, for the     *)
(* Director, its successive statements.                                    *)
(***************************************************************************)
EXTENDS Integers, Sequences, FiniteSets, TLC

VARIABLES
    reqCtx,   \* middlewares.RequestContext: Service, ServiceConfig, Body
    env,      \* what the collaborators answer during this exchange
    inReq,    \* the inbound *http.Request handed to the handler
    pc,       \* position of the exchange in getProxy / ServeHTTP / Director
    handler,  \* what getProxy returned: "none", "direct" or "proxy"
    upstream, \* the Upstream captured by the proxy closures (an option)
    calls,    \* the collaborator calls made so far, in order
    outReq,   \* the outbound request the Director mutates
    w         \* the http.ResponseWriter of the exchange

vars == <<reqCtx, env, inReq, pc, handler, upstream, calls, outReq, w>>

\* Largest number of values one inbound header carries.
MaxValues == 2

-----------------------------------------------------------------------------
(* Go nil-able pointers: the empty tuple is nil, a 1-tuple is a value. *)

Nil == <<>>

Some(x) == <<x>>

-----------------------------------------------------------------------------
(* net/http Header: a map from key to a list of values. *)

EmptyHeader == [k \in {} |-> <<>>]

\* textproto.CanonicalMIMEHeaderKey on the keys the program uses: only the
\* mixed-case WebSocket names differ from their canonical form.
CanonicalMIMEHeaderKey(k) ==
    CASE k = "Sec-WebSocket-Key" -> "Sec-Websocket-Key"
      [] k = "Sec-WebSocket-Extensions" -> "Sec-Websocket-Extensions"
      [] k = "Sec-WebSocket-Accept" -> "Sec-Websocket-Accept"
      [] k = "Sec-WebSocket-Protocol" -> "Sec-Websocket-Protocol"
      [] k = "Sec-WebSocket-Version" -> "Sec-Websocket-Version"
      [] OTHER -> k

\* h[k] = vs on the raw map (no canonicalisation).
MapPut(h, k, vs) == [x \in DOMAIN h \cup {k} |-> IF x = k THEN vs ELSE h[x]]

\* delete(h, k) on the raw map.
MapDelete(h, k) == [x \in DOMAIN h \ {k} |-> h[x]]

\* h[k] on the raw map: a missing key reads as the nil slice.
MapIndex(h, k) == IF k \in DOMAIN h THEN h[k] ELSE <<>>

\* Header.Get: the first value under the canonical key, "" when there is none.
HeaderGet(h, k) ==
    LET vs == MapIndex(h, CanonicalMIMEHeaderKey(k))
    IN  IF Len(vs) > 0 THEN vs[1] ELSE ""

\* Header.Set: the canonical key holds exactly the one value.
HeaderSet(h, k, v) == MapPut(h, CanonicalMIMEHeaderKey(k), <<v>>)

\* Header.Del: the canonical key is removed.
HeaderDel(h, k) == MapDelete(h, CanonicalMIMEHeaderKey(k))

\* strings.ToLower on the header values of the model.
ToLower(s) ==
    CASE s = "Upgrade" -> "upgrade"
      [] s = "UPGRADE" -> "upgrade"
      [] s = "WebSocket" -> "websocket"
      [] s = "WEBSOCKET" -> "websocket"
      [] OTHER -> s

\* The comma-separated, space-trimmed tokens of one header value.
Tokens(s) ==
    CASE s = "" -> <<>>
      [] s = "keep-alive, Upgrade" -> <<"keep-alive", "Upgrade">>
      [] s = "keep-alive,upgrade" -> <<"keep-alive", "upgrade">>
      [] OTHER -> <<s>>

\* httpguts.HeaderValuesContainsToken: some value holds the token, compared
\* without regard to ASCII case.
HeaderValuesContainsToken(values, token) ==
    \E i \in 1..Len(values) :
        \E j \in 1..Len(Tokens(values[i])) :
            ToLower(Tokens(values[i])[j]) = ToLower(token)

\* strings.EqualFold.
EqualFold(a, b) == ToLower(a) = ToLower(b)

\* strings.ReplaceAll(q, ";", "&") on a query kept as a sequence of characters.
ReplaceSemicolons(q) == [i \in 1..Len(q) |-> IF q[i] = ";" THEN "&" ELSE q[i]]

\* url.URL.String for a URL made of a scheme and a host.
URLString(u) ==
    (IF u.Scheme # "" THEN u.Scheme \o ":" ELSE "")
        \o (IF u.Host # "" THEN "//" \o u.Host ELSE "")

-----------------------------------------------------------------------------
(* http.ResponseWriter, by its documented contract: the first WriteHeader  *)
(* (explicit, or implied by the first Write) fixes the status and the      *)
(* header set the client receives; later WriteHeader calls and later       *)
(* changes of the header map have no effect.                               *)

NewResponseWriter ==
    [wroteHeader |-> FALSE, status |-> 0, header |-> EmptyHeader,
     sent |-> EmptyHeader, body |-> ""]

WWriteHeader(rw, code) ==
    IF rw.wroteHeader
    THEN rw
    ELSE [rw EXCEPT !.wroteHeader = TRUE, !.status = code, !.sent = rw.header]

\* Write: implies WriteHeader(200); the first body bytes of a response that was
\* given no Content-Type get the sniffed type.
WWrite(rw, data) ==
    LET started == WWriteHeader(rw, 200)
        sniff == started.body = "" /\ data # "" /\ "Content-Type" \notin DOMAIN started.sent
    IN  [started EXCEPT
            !.body = @ \o data,
            !.sent = IF sniff
                     THEN HeaderSet(@, "Content-Type", "text/plain; charset=utf-8")
                     ELSE @]

WHeaderSet(rw, k, v) == [rw EXCEPT !.header = HeaderSet(@, k, v)]

\* The server finishing the exchange once the handler has returned.
WFinish(rw) == WWriteHeader(rw, 200)

StatusInternalServerError == 500

StatusBadGateway == 502

StatusGatewayTimeout == 504

StatusClientClosedRequest == 499

\* http.StatusText for the codes the ErrorHandler writes (499 has none).
StatusText(code) ==
    CASE code = StatusInternalServerError -> "Internal Server Error"
      [] code = StatusBadGateway -> "Bad Gateway"
      [] code = StatusGatewayTimeout -> "Gateway Timeout"
      [] OTHER -> ""

-----------------------------------------------------------------------------
(* The request context: corev1 Service and Service_Spec_Config. *)

Service(managed, h2) == [isManagedSvc |-> managed, isHTTP2 |-> h2]

Sigv4Opts ==
    [AccessKeyID |-> "AKIA", SecretName |-> "aws-secret",
     Service |-> "s3", Region |-> "us-east-1"]

HttpConfig(response, auth) == [Response |-> response, Auth |-> auth]

Config(cert, tls, http) == [ClientCertificate |-> cert, Tls |-> tls, Http |-> http]

CertChoices == {Nil, Some("cert")}

TlsChoices ==
    {Nil, Some([ClientCertificate |-> Nil]), Some([ClientCertificate |-> Some("cert")])}

AuthChoices == {Nil, Some([Sigv4 |-> Nil]), Some([Sigv4 |-> Some(Sigv4Opts)])}

\* Service_Spec_Config_HTTP_Response_Direct: the oneof Type with its payload,
\* ContentType and StatusCode.
DirectSpecs ==
    {[Type |-> t, Payload |-> b, ContentType |-> ct, StatusCode |-> sc] :
        t \in {"Inline", "InlineBytes"}, b \in {"", "hello"},
        ct \in {"", "text/plain"}, sc \in {0, 199, 200, 201, 404, 599, 600, 999}}
    \cup
    {[Type |-> "None", Payload |-> "", ContentType |-> ct, StatusCode |-> sc] :
        ct \in {"", "text/plain"}, sc \in {0, 199, 200, 201, 404, 599, 600, 999}}

GetInline(d) == IF d.Type = "Inline" THEN d.Payload ELSE ""

GetInlineBytes(d) == IF d.Type = "InlineBytes" THEN d.Payload ELSE ""

DirectConfigs ==
    {Some(Config(Nil, Nil, Some(HttpConfig(Some([Direct |-> Some(d)]), a)))) :
        d \in DirectSpecs, a \in {Nil, Some([Sigv4 |-> Some(Sigv4Opts)])}}

\* Every ServiceConfig without a direct response, the nil config included.
ProxyConfigs ==
    {Nil} \cup
    {Some(Config(cc, tls, http)) :
        cc \in CertChoices, tls \in TlsChoices,
        http \in {Nil} \cup {Some(HttpConfig(r, a)) :
                                r \in {Nil, Some([Direct |-> Nil])}, a \in AuthChoices}}

SigningConfig == Some(Config(Nil, Nil, Some(HttpConfig(Nil, Some([Sigv4 |-> Some(Sigv4Opts)])))))

PlainConfig == Some(Config(Nil, Nil, Some(HttpConfig(Nil, Nil))))

Context(svc, cfg) == [Service |-> svc, ServiceConfig |-> cfg, Body |-> "payload"]

-----------------------------------------------------------------------------
(* The Upstream the load balancer resolves. *)

Upstream(scheme, isUser) ==
    [URL |-> [Scheme |-> scheme, Host |-> "backend.svc:8080"],
     HostPort |-> "10.0.0.7:8080", IsUser |-> isUser]

Schemes == {"https", "http", "ws", "wss", "grpc", "h2c", "", "tcp"}

Upstreams == {Upstream(s, u) : s \in Schemes, u \in BOOLEAN}

DefaultUpstream == Upstream("https", FALSE)

-----------------------------------------------------------------------------
(* The errors a round trip ends with: what errors.Is / errors.As find.     *)

Errors == [eof : BOOLEAN, canceled : BOOLEAN, net : {"none", "net", "timeout"}]

\* What the collaborators answer: lbManager.GetUpstream (an Upstream, or nil
\* for an error), getRoundTripper (ok or error), secretMan.GetByName (ok or
\* error), signer.SignHTTP ("ok"; "err" after it has set X-Amz-Date;
\* "errClean" before it touched the request), Transport.RoundTrip (nil for a
\* response, or an error).
Answers(lb, rt, secret, sign, trip) ==
    [lb |-> lb, rt |-> rt, secret |-> secret, sign |-> sign, trip |-> trip]

DefaultAnswers == Answers(Some(DefaultUpstream), TRUE, TRUE, "ok", Nil)

SignAnswers == {<<FALSE, "ok">>, <<TRUE, "ok">>, <<TRUE, "err">>, <<TRUE, "errClean">>}

\* The response of the upstream on a successful round trip.
UpstreamResponse ==
    [StatusCode |-> 200, Header |-> [k \in {"Server"} |-> <<"nginx">>], Body |-> "ok"]

-----------------------------------------------------------------------------
(* Inbound requests. *)

\* The value lists of one to MaxValues values over a set of strings (a parsed
\* header line always carries a value, possibly the empty one).
ValueLists(S) == UNION {[1..n -> S] : n \in 1..MaxValues}

\* A header map with key k present (an option holding its values) or absent.
Entry(k, opt) == IF opt = Nil THEN EmptyHeader ELSE [x \in {k} |-> opt[1]]

Request(query, header) ==
    [URL |-> [Scheme |-> "", Host |-> "", RawQuery |-> query],
     Host |-> "gateway.example.com", RequestURI |-> "/path", Header |-> header,
     Proto |-> "HTTP/1.0", ProtoMajor |-> 1, ProtoMinor |-> 0]

DefaultRequest ==
    Request(<<"a", "=", "1", ";", "b", "=", "2">>,
            Entry("User-Agent", Some(<<"curl">>)) @@ Entry("Origin", Some(<<"http://app">>))
              @@ Entry("X-Forwarded-For", Some(<<"192.0.2.1">>)))

TopologyHeaders == {"Forwarded", "X-Forwarded-For", "X-Forwarded-Host", "X-Forwarded-Proto"}

TopologyEntries == {[k \in S |-> <<"192.0.2.1", "10.1.1.1">>] : S \in SUBSET TopologyHeaders}

UpgradeEntries ==
    {EmptyHeader,
     Entry("Connection", Some(<<"keep-alive, Upgrade">>)) @@ Entry("Upgrade", Some(<<"WebSocket">>))
        @@ Entry("Sec-Websocket-Key", Some(<<"dGhlIHNhbXBsZQ==">>)),
     Entry("Connection", Some(<<"Upgrade">>)) @@ Entry("Upgrade", Some(<<"h2c">>))}

CanonicalWS ==
    <<"Sec-Websocket-Key", "Sec-Websocket-Extensions", "Sec-Websocket-Accept",
      "Sec-Websocket-Protocol", "Sec-Websocket-Version">>

MixedWS ==
    <<"Sec-WebSocket-Key", "Sec-WebSocket-Extensions", "Sec-WebSocket-Accept",
      "Sec-WebSocket-Protocol", "Sec-WebSocket-Version">>

\* Header maps around the WebSocket handshake: Connection and Upgrade in
\* several spellings, the handshake headers under either or both names.
WebSocketEntries ==
    {Entry("Connection", c) @@ Entry("Upgrade", u) @@ key @@ version
        @@ Entry("Sec-Websocket-Protocol", p) @@ rest :
        c \in {Nil, Some(<<"keep-alive">>), Some(<<"Upgrade">>),
               Some(<<"keep-alive, Upgrade">>), Some(<<"keep-alive", "UPGRADE">>)},
        u \in {Nil, Some(<<"websocket">>), Some(<<"WebSocket">>), Some(<<"h2c">>),
               Some(<<"h2c", "websocket">>)},
        key \in {EmptyHeader, Entry("Sec-Websocket-Key", Some(<<"k1">>)),
                 Entry("Sec-WebSocket-Key", Some(<<"k0">>)),
                 Entry("Sec-Websocket-Key", Some(<<"k1">>))
                    @@ Entry("Sec-WebSocket-Key", Some(<<"k0">>))},
        version \in {EmptyHeader, Entry("Sec-Websocket-Version", Some(<<"13">>)),
                     Entry("Sec-WebSocket-Version", Some(<<"8">>))},
        p \in {Nil} \cup {Some(vs) : vs \in ValueLists({"chat"})},
        rest \in {EmptyHeader,
                  Entry("Sec-Websocket-Extensions", Some(<<"permessage-deflate">>))
                     @@ Entry("Sec-Websocket-Accept", Some(<<"s3pPLMBiTxaQ9k">>))}}

OriginEntries ==
    {Entry("Origin", o) : o \in {Nil} \cup {Some(vs) : vs \in ValueLists({"", "http://app", "null"})}}

-----------------------------------------------------------------------------
(* The exchanges explored: each family varies the inputs of one part of    *)
(* the pipeline over its whole set and the others over a few values.       *)

Scenario(ctx, answers, req) == [ctx |-> ctx, env |-> answers, req |-> req]

\* Direct responses of every shape.
DirectScenarios ==
    {Scenario(Context(Service(m, FALSE), cfg), DefaultAnswers, DefaultRequest) :
        m \in BOOLEAN, cfg \in DirectConfigs}

\* Handler selection and scheme resolution: every config without a direct
\* response, every upstream, both resolvers failing or not.
SelectScenarios ==
    {Scenario(Context(Service(FALSE, h2), cfg),
              Answers(lb, rt, TRUE, "ok", Nil), DefaultRequest) :
        h2 \in BOOLEAN, cfg \in ProxyConfigs,
        lb \in {Nil} \cup {Some(u) : u \in Upstreams}, rt \in BOOLEAN}

\* Header policy: topology headers, upgrade requests, Origin and User-Agent,
\* managed or not, with every outcome of signing.
HeaderScenarios ==
    {Scenario(Context(Service(m, FALSE), cs[1]),
              Answers(Some(Upstream(s, s = "ws")), TRUE, cs[2][1], cs[2][2], Nil),
              Request(<<>>, t @@ up @@ o @@ ua)) :
        m \in BOOLEAN, s \in {"https", "ws"},
        cs \in ({Nil, PlainConfig} \X {<<TRUE, "ok">>}) \cup ({SigningConfig} \X SignAnswers),
        t \in TopologyEntries, up \in UpgradeEntries,
        o \in {Entry("Origin", x) : x \in {Nil, Some(<<"">>), Some(<<"http://app">>)}},
        ua \in {EmptyHeader, Entry("User-Agent", Some(<<"">>))}}

\* Origin rewrite: every Origin value list against every upstream.
OriginScenarios ==
    {Scenario(Context(Service(FALSE, FALSE), cfg), Answers(Some(u), TRUE, TRUE, "ok", Nil),
              Request(q, o @@ Entry("User-Agent", Some(<<"curl">>)))) :
        cfg \in {Nil, SigningConfig}, u \in Upstreams, o \in OriginEntries,
        q \in {<<>>, <<"a", ";", "b", "&", "c", ";">>}}

\* WebSocket header repair.
WebSocketScenarios ==
    {Scenario(Context(Service(FALSE, FALSE), Nil), DefaultAnswers, Request(<<>>, h)) :
        h \in WebSocketEntries}

\* Failed round trips of every kind, after every outcome of signing.
ErrorScenarios ==
    {Scenario(Context(Service(FALSE, FALSE), cs[1]),
              Answers(Some(DefaultUpstream), TRUE, cs[2][1], cs[2][2], Some(e)),
              DefaultRequest) :
        cs \in ({Nil} \X {<<TRUE, "ok">>}) \cup ({SigningConfig} \X SignAnswers),
        e \in Errors}

Scenarios ==
    DirectScenarios \cup SelectScenarios \cup HeaderScenarios \cup OriginScenarios
        \cup WebSocketScenarios \cup ErrorScenarios

Init ==
    /\ \E s \in Scenarios : reqCtx = s.ctx /\ env = s.env /\ inReq = s.req
    /\ pc = "getProxy"
    /\ handler = "none"
    /\ upstream = Nil
    /\ calls = <<>>
    /\ outReq = Nil
    /\ w = NewResponseWriter

-----------------------------------------------------------------------------
(* Server.getProxy *)

\* cfg carries a direct response.
HasDirect(cfg) ==
    /\ cfg # Nil
    /\ cfg[1].Http # Nil
    /\ cfg[1].Http[1].Response # Nil
    /\ cfg[1].Http[1].Response[1].Direct # Nil

\* cfg carries a sigv4 signing block.
HasSigv4(cfg) ==
    /\ cfg # Nil
    /\ cfg[1].Http # Nil
    /\ cfg[1].Http[1].Auth # Nil
    /\ cfg[1].Http[1].Auth[1].Sigv4 # Nil

\* getProxy looking at GetUpstream's error only after it called getRoundTripper.
GetProxyResult_LateErrorCheck(ctx, answers) ==
    IF HasDirect(ctx.ServiceConfig)
    THEN [handler |-> "direct", upstream |-> Nil, calls |-> <<>>, err |-> FALSE]
    ELSE IF answers.lb = Nil \/ ~answers.rt
    THEN [handler |-> "none", upstream |-> Nil,
          calls |-> <<"GetUpstream", "getRoundTripper">>, err |-> TRUE]
    ELSE [handler |-> "proxy", upstream |-> answers.lb,
          calls |-> <<"GetUpstream", "getRoundTripper">>, err |-> FALSE]

\* What getProxy returns and which collaborators it called on the way.
GetProxyResult(ctx, answers) ==
    IF HasDirect(ctx.ServiceConfig)
    THEN [handler |-> "direct", upstream |-> Nil, calls |-> <<>>, err |-> FALSE]
    ELSE IF answers.lb = Nil
    THEN [handler |-> "none", upstream |-> Nil, calls |-> <<"GetUpstream">>, err |-> TRUE]
    ELSE IF ~answers.rt
    THEN [handler |-> "none", upstream |-> Nil,
          calls |-> <<"GetUpstream", "getRoundTripper">>, err |-> TRUE]
    ELSE [handler |-> "proxy", upstream |-> answers.lb,
          calls |-> <<"GetUpstream", "getRoundTripper">>, err |-> FALSE]

GetProxy ==
    /\ pc = "getProxy"
    /\ LET r == GetProxyResult(reqCtx, env)
       IN  /\ handler' = r.handler
           /\ upstream' = r.upstream
           /\ calls' = r.calls
           /\ pc' = IF r.err THEN "failed"
                    ELSE IF r.handler = "direct" THEN "serveDirect" ELSE "serveProxy"
    /\ UNCHANGED <<reqCtx, env, inReq, outReq, w>>

-----------------------------------------------------------------------------
(* directResponseHandler.ServeHTTP *)

DirectOf(cfg) == cfg[1].Http[1].Response[1].Direct[1]

\* ServeHTTP without the default arm of the switch.
DirectServeHTTP_NoDefaultArm(rw, resp) ==
    LET written == IF resp.Type = "Inline"
                   THEN WWrite(rw, GetInline(resp))
                   ELSE WWrite(rw, GetInlineBytes(resp))
        typed == IF resp.ContentType # ""
                 THEN WHeaderSet(written, "Content-Type", resp.ContentType)
                 ELSE written
        coded == IF resp.StatusCode >= 200 /\ resp.StatusCode <= 599
                 THEN WWriteHeader(typed, resp.StatusCode)
                 ELSE typed
    IN  WHeaderSet(coded, "Server", "octelium")

DirectServeHTTP(rw, resp) ==
    IF resp.Type \notin {"Inline", "InlineBytes"}
    THEN WWriteHeader(rw, StatusInternalServerError)
    ELSE LET written == IF resp.Type = "Inline"
                        THEN WWrite(rw, GetInline(resp))
                        ELSE WWrite(rw, GetInlineBytes(resp))
             typed == IF resp.ContentType # ""
                      THEN WHeaderSet(written, "Content-Type", resp.ContentType)
                      ELSE written
             coded == IF resp.StatusCode >= 200 /\ resp.StatusCode <= 599
                      THEN WWriteHeader(typed, resp.StatusCode)
                      ELSE typed
         IN  WHeaderSet(coded, "Server", "octelium")

ServeDirect ==
    /\ pc = "serveDirect"
    /\ w' = WFinish(DirectServeHTTP(w, DirectOf(reqCtx.ServiceConfig)))
    /\ pc' = "done"
    /\ UNCHANGED <<reqCtx, env, inReq, handler, upstream, calls, outReq>>

-----------------------------------------------------------------------------
(* httputil.ReverseProxy built by getProxy: ServeHTTP clones the inbound   *)
(* request, runs the Director on the clone and hands the clone to the      *)
(* Transport whatever the Director did.                                    *)

\* The Director signing before it rewrites Origin.
DirectorOrder_SignBeforeOrigin ==
    <<"scheme", "host", "query", "requestURI", "userAgent", "fixWebSocket",
      "proto", "strip", "sign", "origin">>

\* The statements of the Director, in the order of the source.
DirectorOrder ==
    <<"scheme", "host", "query", "requestURI", "userAgent", "fixWebSocket",
      "proto", "strip", "origin", "sign">>

\* Where the ReverseProxy continues once the Director has returned.
DirectorReturn == "roundTrip"

StepAfter(step) ==
    LET i == CHOOSE j \in 1..Len(DirectorOrder) : DirectorOrder[j] = step
    IN  IF i = Len(DirectorOrder) THEN DirectorReturn ELSE DirectorOrder[i + 1]

ProxyServeHTTP ==
    /\ pc = "serveProxy"
    /\ outReq' = inReq
    /\ pc' = DirectorOrder[1]
    /\ UNCHANGED <<reqCtx, env, inReq, handler, upstream, calls, w>>

\* Scheme resolution overlooking cfg.Tls.ClientCertificate.
ResolveScheme_TlsCertificateIgnored(scheme, cfg) ==
    CASE scheme \in {"https", "http"} -> scheme
      [] scheme = "ws" -> "http"
      [] scheme \in {"grpc", "h2c"} -> "http"
      [] scheme = "wss" -> "https"
      [] OTHER -> IF cfg # Nil /\ cfg[1].ClientCertificate # Nil THEN "https" ELSE "http"

\* The wire scheme for the upstream's scheme.
ResolveScheme(scheme, cfg) ==
    CASE scheme \in {"https", "http"} -> scheme
      [] scheme = "ws" -> "http"
      [] scheme \in {"grpc", "h2c"} -> "http"
      [] scheme = "wss" -> "https"
      [] OTHER ->
            IF cfg # Nil /\ (cfg[1].ClientCertificate # Nil
                              \/ (cfg[1].Tls # Nil /\ cfg[1].Tls[1].ClientCertificate # Nil))
            THEN "https"
            ELSE "http"

DirScheme ==
    /\ pc = "scheme"
    /\ outReq' = [outReq EXCEPT
                    !.URL.Scheme = ResolveScheme(upstream[1].URL.Scheme, reqCtx.ServiceConfig)]
    /\ pc' = StepAfter("scheme")
    /\ UNCHANGED <<reqCtx, env, inReq, handler, upstream, calls, w>>

ResolveHost(req, up) ==
    [req EXCEPT !.Host = up.URL.Host,
                !.URL.Host = IF up.IsUser THEN up.HostPort ELSE up.URL.Host]

DirHost ==
    /\ pc = "host"
    /\ outReq' = ResolveHost(outReq, upstream[1])
    /\ pc' = StepAfter("host")
    /\ UNCHANGED <<reqCtx, env, inReq, handler, upstream, calls, w>>

DirQuery ==
    /\ pc = "query"
    /\ outReq' = [outReq EXCEPT !.URL.RawQuery = ReplaceSemicolons(@)]
    /\ pc' = StepAfter("query")
    /\ UNCHANGED <<reqCtx, env, inReq, handler, upstream, calls, w>>

DirRequestURI ==
    /\ pc = "requestURI"
    /\ outReq' = [outReq EXCEPT !.RequestURI = ""]
    /\ pc' = StepAfter("requestURI")
    /\ UNCHANGED <<reqCtx, env, inReq, handler, upstream, calls, w>>

DefaultUserAgent(h) ==
    IF "User-Agent" \notin DOMAIN h THEN HeaderSet(h, "User-Agent", "octelium") ELSE h

DirUserAgent ==
    /\ pc = "userAgent"
    /\ outReq' = [outReq EXCEPT !.Header = DefaultUserAgent(@)]
    /\ pc' = StepAfter("userAgent")
    /\ UNCHANGED <<reqCtx, env, inReq, handler, upstream, calls, w>>

isWebSocketUpgrade(h) ==
    IF ~HeaderValuesContainsToken(MapIndex(h, "Connection"), "Upgrade")
    THEN FALSE
    ELSE EqualFold(HeaderGet(h, "Upgrade"), "websocket")

\* The five assignments, then the five deletes.
RECURSIVE AssignMixed(_, _)
AssignMixed(h, i) ==
    IF i > Len(MixedWS)
    THEN h
    ELSE AssignMixed(MapPut(h, MixedWS[i], MapIndex(h, CanonicalWS[i])), i + 1)

RECURSIVE DeleteCanonical(_, _)
DeleteCanonical(h, i) ==
    IF i > Len(CanonicalWS) THEN h ELSE DeleteCanonical(MapDelete(h, CanonicalWS[i]), i + 1)

\* The repair without the five deletes.
fixWebSocketHeaders_NoDelete(h) ==
    IF ~isWebSocketUpgrade(h) THEN h ELSE AssignMixed(h, 1)

fixWebSocketHeaders(h) ==
    IF ~isWebSocketUpgrade(h) THEN h ELSE DeleteCanonical(AssignMixed(h, 1), 1)

DirFixWebSocket ==
    /\ pc = "fixWebSocket"
    /\ outReq' = [outReq EXCEPT !.Header = fixWebSocketHeaders(@)]
    /\ pc' = StepAfter("fixWebSocket")
    /\ UNCHANGED <<reqCtx, env, inReq, handler, upstream, calls, w>>

\* isHTTP2RequestUpstream is decided by the Service's type.
isHTTP2RequestUpstream(req, svc) == svc.isHTTP2

SelectProto(req, svc) ==
    IF isHTTP2RequestUpstream(req, svc)
    THEN [req EXCEPT !.Proto = "HTTP/2", !.ProtoMajor = 2, !.ProtoMinor = 0]
    ELSE [req EXCEPT !.Proto = "HTTP/1.1", !.ProtoMajor = 1, !.ProtoMinor = 1]

DirProto ==
    /\ pc = "proto"
    /\ outReq' = SelectProto(outReq, reqCtx.Service)
    /\ pc' = StepAfter("proto")
    /\ UNCHANGED <<reqCtx, env, inReq, handler, upstream, calls, w>>

\* The stripping without the last Del.
StripTopology_KeepsProto(h, isManagedSvc) ==
    IF ~isManagedSvc
    THEN HeaderDel(HeaderDel(HeaderDel(h, "Forwarded"), "X-Forwarded-For"), "X-Forwarded-Host")
    ELSE h

StripTopology(h, isManagedSvc) ==
    IF ~isManagedSvc
    THEN HeaderDel(HeaderDel(HeaderDel(HeaderDel(h, "Forwarded"), "X-Forwarded-For"),
                             "X-Forwarded-Host"), "X-Forwarded-Proto")
    ELSE h

DirStrip ==
    /\ pc = "strip"
    /\ outReq' = [outReq EXCEPT !.Header = StripTopology(@, reqCtx.Service.isManagedSvc)]
    /\ pc' = StepAfter("strip")
    /\ UNCHANGED <<reqCtx, env, inReq, handler, upstream, calls, w>>

\* The rewrite keyed on the presence of the header instead of its value.
RewriteOrigin_WheneverPresent(h, up) ==
    IF "Origin" \in DOMAIN h THEN HeaderSet(h, "Origin", URLString(up.URL)) ELSE h

RewriteOrigin(h, up) ==
    IF HeaderGet(h, "Origin") # "" THEN HeaderSet(h, "Origin", URLString(up.URL)) ELSE h

DirOrigin ==
    /\ pc = "origin"
    /\ outReq' = [outReq EXCEPT !.Header = RewriteOrigin(@, upstream[1])]
    /\ pc' = StepAfter("origin")
    /\ UNCHANGED <<reqCtx, env, inReq, handler, upstream, calls, w>>

\* sigv4 Signer.SignHTTP: it dates the request first and attaches the
\* Authorization header last; an error leaves the request without it.
SignHTTP(req, outcome) ==
    CASE outcome = "ok" ->
            [req EXCEPT !.Header =
                HeaderSet(HeaderSet(@, "X-Amz-Date", "20261101T000000Z"),
                          "Authorization", "AWS4-HMAC-SHA256 Credential=AKIA")]
      [] outcome = "err" ->
            [req EXCEPT !.Header = HeaderSet(@, "X-Amz-Date", "20261101T000000Z")]
      [] OTHER -> req

\* The signing step going on to sign after a failed secret lookup.
SignStep_LookupErrorIgnored(req, cfg, answers) ==
    IF ~HasSigv4(cfg)
    THEN [req |-> req, calls |-> <<>>, returned |-> FALSE]
    ELSE [req |-> SignHTTP(req, answers.sign), calls |-> <<"GetByName", "SignHTTP">>,
          returned |-> answers.sign # "ok"]

\* The signing block: the outbound request, the calls made and whether the
\* Director returned early.
SignStep(req, cfg, answers) ==
    IF ~HasSigv4(cfg)
    THEN [req |-> req, calls |-> <<>>, returned |-> FALSE]
    ELSE IF ~answers.secret
    THEN [req |-> req, calls |-> <<"GetByName">>, returned |-> FALSE]
    ELSE [req |-> SignHTTP(req, answers.sign), calls |-> <<"GetByName", "SignHTTP">>,
          returned |-> answers.sign # "ok"]

DirSign ==
    /\ pc = "sign"
    /\ LET r == SignStep(outReq, reqCtx.ServiceConfig, env)
       IN  /\ outReq' = r.req
           /\ calls' = calls \o r.calls
           /\ pc' = IF r.returned THEN DirectorReturn ELSE StepAfter("sign")
    /\ UNCHANGED <<reqCtx, env, inReq, handler, upstream, w>>

\* Transport.RoundTrip on the request the Director left.
RoundTrip ==
    /\ pc = "roundTrip"
    /\ calls' = Append(calls, "RoundTrip")
    /\ pc' = IF env.trip = Nil THEN "modifyResponse" ELSE "errorHandler"
    /\ UNCHANGED <<reqCtx, env, inReq, handler, upstream, outReq, w>>

\* ModifyResponse, then the proxy copying the response to the client.
ModifyResponse ==
    /\ pc = "modifyResponse"
    /\ LET r == [UpstreamResponse EXCEPT !.Header = HeaderSet(@, "Server", "octelium")]
       IN  w' = WFinish(WWrite(WWriteHeader([w EXCEPT !.header = r.Header], r.StatusCode),
                               r.Body))
    /\ pc' = "done"
    /\ UNCHANGED <<reqCtx, env, inReq, handler, upstream, calls, outReq>>

\* The classification looking at net.Error before context.Canceled.
ClassifyError_NetworkFirst(err) ==
    CASE err.eof -> StatusBadGateway
      [] ~err.eof /\ err.net = "timeout" -> StatusGatewayTimeout
      [] ~err.eof /\ err.net = "net" -> StatusBadGateway
      [] OTHER -> IF err.canceled THEN StatusClientClosedRequest ELSE StatusInternalServerError

\* The status code for a round-trip error.
ClassifyError(err) ==
    CASE err.eof -> StatusBadGateway
      [] ~err.eof /\ err.canceled -> StatusClientClosedRequest
      [] OTHER ->
            IF err.net # "none"
            THEN IF err.net = "timeout" THEN StatusGatewayTimeout ELSE StatusBadGateway
            ELSE StatusInternalServerError

ErrorHandler ==
    /\ pc = "errorHandler"
    /\ LET statusCode == ClassifyError(env.trip[1])
       IN  w' = WFinish(WWrite(WWriteHeader(w, statusCode), StatusText(statusCode)))
    /\ pc' = "done"
    /\ UNCHANGED <<reqCtx, env, inReq, handler, upstream, calls, outReq>>

Next ==
    \/ GetProxy
    \/ ServeDirect
    \/ ProxyServeHTTP
    \/ DirScheme
    \/ DirHost
    \/ DirQuery
    \/ DirRequestURI
    \/ DirUserAgent
    \/ DirFixWebSocket
    \/ DirProto
    \/ DirStrip
    \/ DirOrigin
    \/ DirSign
    \/ RoundTrip
    \/ ModifyResponse
    \/ ErrorHandler

Spec == Init /\ [][Next]_vars

-----------------------------------------------------------------------------
(* Properties *)

\* The Director has returned and the exchange went on to the Transport.
AfterDirector == handler = "proxy" /\ pc \in {"roundTrip", "modifyResponse", "errorHandler", "done"}

\* The proxied exchange is over, whatever the round trip gave.
ProxyDone == handler = "proxy" /\ pc = "done"

Called(name) == \E i \in 1..Len(calls) : calls[i] = name

CallCount(name) == Cardinality({i \in 1..Len(calls) : calls[i] = name})

C2_DirectResponseAsConfigured ==
    (pc = "done" /\ handler = "direct") =>
        LET d == DirectOf(reqCtx.ServiceConfig)
        IN  (d.Type \in {"Inline", "InlineBytes"} /\ d.ContentType # ""
                /\ d.StatusCode \in 200..599) =>
                /\ w.body = d.Payload
                /\ w.status = d.StatusCode
                /\ MapIndex(w.sent, "Content-Type") = <<d.ContentType>>
                /\ MapIndex(w.sent, "Server") = <<"octelium">>

\* C3: once the Director has run, a request for a Service that is not managed
\* carries none of Forwarded, X-Forwarded-For, X-Forwarded-Host and
\* X-Forwarded-Proto; for a managed Service each of them that the inbound request
\* carried is still there with the same values.
C3_TopologyHeaders ==
    AfterDirector =>
        IF ~reqCtx.Service.isManagedSvc
        THEN \A k \in TopologyHeaders : k \notin DOMAIN outReq.Header
        ELSE \A k \in TopologyHeaders :
                k \in DOMAIN inReq.Header =>
                    k \in DOMAIN outReq.Header /\ outReq.Header[k] = inReq.Header[k]

C3_Witness ==
    /\ AfterDirector
    /\ ~reqCtx.Service.isManagedSvc
    /\ TopologyHeaders \subseteq DOMAIN inReq.Header
    /\ isWebSocketUpgrade(outReq.Header)
    /\ HeaderGet(inReq.Header, "Origin") # ""
    /\ Called("SignHTTP") /\ env.sign = "err"

\* C4: the ErrorHandler answers a failed round trip with the status of the first
\* row that matches, io.EOF 502, context.Canceled 499, a net.Error with timeout
\* 504, a net.Error without 502, anything else 500, and the body is the status
\* text of that code.
C4_ErrorClassification ==
    (ProxyDone /\ env.trip # Nil) =>
        LET e == env.trip[1]
        IN  /\ e.eof => w.status = 502
            /\ (~e.eof /\ e.canceled) => w.status = 499
            /\ (~e.eof /\ ~e.canceled /\ e.net = "timeout") => w.status = 504
            /\ (~e.eof /\ ~e.canceled /\ e.net = "net") => w.status = 502
            /\ (~e.eof /\ ~e.canceled /\ e.net = "none") => w.status = 500
            /\ w.status = 502 => w.body = "Bad Gateway"
            /\ w.status = 499 => w.body = ""
            /\ w.status = 504 => w.body = "Gateway Timeout"
            /\ w.status = 500 => w.body = "Internal Server Error"
            /\ w.status \in {499, 500, 502, 504}

C4_Witness ==
    /\ ProxyDone
    /\ env.trip = Some([eof |-> FALSE, canceled |-> TRUE, net |-> "timeout"])
    /\ w.status = 499

\* C5: getProxy returns the direct-response handler without calling either
\* resolver when a direct response is configured; otherwise it calls GetUpstream
\* first and getRoundTripper only after GetUpstream succeeded; when either fails
\* it returns no handler, and nothing is dispatched or written.
C5_CollaboratorOrder ==
    (pc # "getProxy") =>
        /\ HasDirect(reqCtx.ServiceConfig) =>
            /\ handler = "direct"
            /\ ~Called("GetUpstream") /\ ~Called("getRoundTripper")
        /\ ~HasDirect(reqCtx.ServiceConfig) =>
            /\ calls[1] = "GetUpstream"
            /\ CallCount("GetUpstream") = 1
            /\ Called("getRoundTripper") <=> env.lb # Nil
            /\ env.lb # Nil => (calls[2] = "getRoundTripper" /\ CallCount("getRoundTripper") = 1)
            /\ (env.lb = Nil \/ ~env.rt) =>
                /\ handler = "none" /\ pc = "failed"
                /\ ~Called("RoundTrip") /\ w = NewResponseWriter
            /\ (env.lb # Nil /\ env.rt) => (handler = "proxy" /\ upstream = env.lb)
        /\ Called("RoundTrip") => handler = "proxy"

C5_Witness ==
    /\ pc = "failed"
    /\ env.lb # Nil /\ ~env.rt
    /\ calls = <<"GetUpstream", "getRoundTripper">>

\* A client-certificate requirement is configured.
CertRequired(cfg) ==
    /\ cfg # Nil
    /\ \/ cfg[1].ClientCertificate # Nil
       \/ (cfg[1].Tls # Nil /\ cfg[1].Tls[1].ClientCertificate # Nil)

\* C6: the outbound scheme is https for https and wss, http for http, ws, grpc and
\* h2c, and for any other upstream scheme https exactly when a client certificate
\* is required.
C6_SchemeResolution ==
    (handler = "proxy" /\ pc \notin {"serveProxy", "scheme"}) =>
        LET s == upstream[1].URL.Scheme
            out == outReq.URL.Scheme
        IN  /\ s \in {"https", "wss"} => out = "https"
            /\ s \in {"http", "ws", "grpc", "h2c"} => out = "http"
            /\ s \notin {"https", "wss", "http", "ws", "grpc", "h2c"} =>
                /\ out \in {"http", "https"}
                /\ out = "https" <=> CertRequired(reqCtx.ServiceConfig)

C6_Witness ==
    /\ ProxyDone
    /\ upstream[1].URL.Scheme = "tcp"
    /\ reqCtx.ServiceConfig # Nil
    /\ reqCtx.ServiceConfig[1].ClientCertificate = Nil
    /\ CertRequired(reqCtx.ServiceConfig)
    /\ outReq.URL.Scheme = "https"

\* The upgrade predicate as the claim words it.
C7_IsUpgrade(h) ==
    /\ \E i \in 1..Len(MapIndex(h, "Connection")) :
            \E j \in 1..Len(Tokens(h["Connection"][i])) :
                ToLower(Tokens(h["Connection"][i])[j]) = "upgrade"
    /\ "Upgrade" \in DOMAIN h
    /\ Len(h["Upgrade"]) > 0
    /\ ToLower(h["Upgrade"][1]) = "websocket"

\* C7: fixWebSocketHeaders, on an upgrade request, leaves none of the five
\* handshake headers under its canonical name and gives each mixed-case name
\* exactly the values the canonical name had (none when it was absent); on any
\* other request it leaves the header map as it was.
C7_WebSocketRepair ==
    [][pc = "fixWebSocket" =>
        LET before == outReq.Header
            after == outReq'.Header
        IN  IF C7_IsUpgrade(before)
            THEN \A i \in 1..5 :
                    /\ CanonicalWS[i] \notin DOMAIN after
                    /\ MapIndex(after, MixedWS[i]) = MapIndex(before, CanonicalWS[i])
            ELSE after = before]_vars

C7_Witness ==
    /\ pc = "proto"
    /\ C7_IsUpgrade(outReq.Header)
    /\ "Sec-Websocket-Key" \in DOMAIN inReq.Header
    /\ "Sec-WebSocket-Key" \in DOMAIN inReq.Header
    /\ "Sec-Websocket-Version" \notin DOMAIN inReq.Header
    /\ MapIndex(outReq.Header, "Sec-WebSocket-Key") = inReq.Header["Sec-Websocket-Key"]
    /\ MapIndex(outReq.Header, "Sec-WebSocket-Version") = <<>>

\* C8: a direct response whose variant is neither Inline nor InlineBytes is
\* answered with status 500 and no body, and neither the configured content type
\* nor the configured status code is applied.
C8_UnknownVariant ==
    (pc = "done" /\ handler = "direct") =>
        LET d == DirectOf(reqCtx.ServiceConfig)
        IN  d.Type \notin {"Inline", "InlineBytes"} =>
                /\ w.status = 500
                /\ w.body = ""
                /\ "Content-Type" \notin DOMAIN w.sent
                /\ "Content-Type" \notin DOMAIN w.header

C8_Witness ==
    /\ pc = "done" /\ handler = "direct"
    /\ DirectOf(reqCtx.ServiceConfig).Type = "None"
    /\ DirectOf(reqCtx.ServiceConfig).ContentType = "text/plain"
    /\ DirectOf(reqCtx.ServiceConfig).StatusCode = 201
    /\ w.status = 500

\* The headers the signer attaches.
SignatureHeaders == {"Authorization", "X-Amz-Date"}

WithoutSignature(h) == [k \in DOMAIN h \ SignatureHeaders |-> h[k]]

\* The nine earlier steps show on the request.
C9_EarlierStepsApplied(req) ==
    /\ req.URL.Scheme \in {"http", "https"}
    /\ req.Host = upstream[1].URL.Host
    /\ req.URL.Host \in {upstream[1].URL.Host, upstream[1].HostPort}
    /\ \A i \in 1..Len(req.URL.RawQuery) : req.URL.RawQuery[i] # ";"
    /\ req.RequestURI = ""
    /\ "User-Agent" \in DOMAIN req.Header
    /\ C7_IsUpgrade(req.Header) => \A i \in 1..5 : CanonicalWS[i] \notin DOMAIN req.Header
    /\ req.Proto \in {"HTTP/2", "HTTP/1.1"}
    /\ ~reqCtx.Service.isManagedSvc => \A k \in TopologyHeaders : k \notin DOMAIN req.Header
    /\ HeaderGet(inReq.Header, "Origin") # "" =>
            MapIndex(req.Header, "Origin") = <<URLString(upstream[1].URL)>>

\* C9: signing is the Director's last step: the signer is called on a request
\* that already shows the nine earlier steps, the Director returns right after
\* it, the step changes nothing but the signature headers, and the request is
\* not changed again before or after the round trip.
C9_SigningLast ==
    [][/\ pc = "sign" =>
            /\ C9_EarlierStepsApplied(outReq)
            /\ pc' = "roundTrip"
            /\ outReq'.URL = outReq.URL /\ outReq'.Host = outReq.Host
            /\ WithoutSignature(outReq'.Header) = WithoutSignature(outReq.Header)
       /\ Called("SignHTTP") => (AfterDirector /\ outReq' = outReq)
       /\ AfterDirector => outReq' = outReq]_vars

C9_Witness ==
    /\ ProxyDone
    /\ Called("SignHTTP") /\ env.sign = "ok"
    /\ "Authorization" \in DOMAIN outReq.Header
    /\ "Authorization" \notin DOMAIN inReq.Header
    /\ MapIndex(outReq.Header, "Origin") = <<URLString(upstream[1].URL)>>
    /\ TopologyHeaders \subseteq DOMAIN inReq.Header
    /\ isWebSocketUpgrade(outReq.Header)

\* The Origin rewrite has run.
AfterOrigin == handler = "proxy" /\ pc \in {"sign", "roundTrip", "modifyResponse", "errorHandler", "done"}

\* C10 (as stated): an Origin header that is present, whatever its value, the
\* empty one included, leaves as the upstream's URL string; none is added when
\* it is absent.
C10_OriginPresentRewritten ==
    AfterOrigin =>
        IF "Origin" \in DOMAIN inReq.Header
        THEN MapIndex(outReq.Header, "Origin") = <<URLString(upstream[1].URL)>>
        ELSE "Origin" \notin DOMAIN outReq.Header

\* C10 (amended): when the first Origin value of the request is not empty the
\* outbound Origin header is the single value of the upstream's URL string;
\* otherwise (no Origin header, or a first value that is empty) the Origin
\* header leaves as it came, and none is added.
C10_OriginRewrite ==
    AfterOrigin =>
        IF "Origin" \in DOMAIN inReq.Header /\ inReq.Header["Origin"][1] # ""
        THEN MapIndex(outReq.Header, "Origin") = <<URLString(upstream[1].URL)>>
        ELSE /\ "Origin" \in DOMAIN outReq.Header <=> "Origin" \in DOMAIN inReq.Header
             /\ MapIndex(outReq.Header, "Origin") = MapIndex(inReq.Header, "Origin")

C10_Witness ==
    /\ ProxyDone
    /\ MapIndex(inReq.Header, "Origin") = <<"http://app", "null">>
    /\ upstream[1].URL.Scheme = "grpc"
    /\ MapIndex(outReq.Header, "Origin") = <<"grpc://backend.svc:8080">>

====
